---- MODULE Spec2Model ----
(***************************************************************************)
(* Contact-form validation engine and submission controller of the         *)
(* Lusk.cloud landing page (js/navigation.js, "Form Validator Module").    *)
(*                                                                         *)
(* A JavaScript string is a sequence of one-character strings.  A          *)
(* JavaScript value is a record [type, str, truthy]: for a string, str     *)
(* holds its characters; for any other value, truthy is its ToBoolean.     *)
(***************************************************************************)
EXTENDS Integers, Sequences, FiniteSets, TLC

----------------------------------------------------------------------------
(* Bounds of the explored inputs                                           *)

MaxStrLen == 5
MaxBaseLen == 3
MaxPad == 2
MaxOutstanding == 3

----------------------------------------------------------------------------
(* JavaScript values and strings                                           *)

WhiteSpace == {" ", "\t"}

IsWhiteSpace(c) == c \in WhiteSpace

Chars == {"a", "@", ".", " "}

JsString(s) == [type |-> "string", str |-> s, truthy |-> (s # <<>>)]

Undefined == [type |-> "undefined", str |-> <<>>, truthy |-> FALSE]

NonStrings ==
  { Undefined,
    [type |-> "null", str |-> <<>>, truthy |-> FALSE],
    [type |-> "number", str |-> <<>>, truthy |-> FALSE],
    [type |-> "number", str |-> <<>>, truthy |-> TRUE],
    [type |-> "boolean", str |-> <<>>, truthy |-> FALSE],
    [type |-> "boolean", str |-> <<>>, truthy |-> TRUE],
    [type |-> "object", str |-> <<>>, truthy |-> TRUE] }

Rep(c, n) == [i \in 1..n |-> c]

\* String.prototype.trim: strip leading, then trailing, white space.
RECURSIVE TrimStart(_)
TrimStart(s) ==
  IF s = <<>> THEN <<>>
  ELSE IF IsWhiteSpace(Head(s)) THEN TrimStart(Tail(s)) ELSE s

RECURSIVE TrimEnd(_)
TrimEnd(s) ==
  IF s = <<>> THEN <<>>
  ELSE IF IsWhiteSpace(s[Len(s)]) THEN TrimEnd(SubSeq(s, 1, Len(s) - 1)) ELSE s

\* Variant: only leading white space is stripped.
TrimStartOnly(s) == TrimStart(s)

Trim(s) == TrimEnd(TrimStart(s))

----------------------------------------------------------------------------
(* Validation rule table                                                   *)

NameMinLength == 2
NameMaxLength == 100
MessageMinLength == 10
MessageMaxLength == 1000

\* An absent minLength / maxLength is 0: the code tests them for truthiness.
validationRules ==
  [ name |->
      [required |-> TRUE, minLength |-> NameMinLength, maxLength |-> NameMaxLength,
       errorMessage |-> "Please enter your name (2-100 characters)"],
    email |->
      [required |-> TRUE, minLength |-> 0, maxLength |-> 0,
       errorMessage |-> "Please enter a valid email address"],
    message |->
      [required |-> TRUE, minLength |-> MessageMinLength, maxLength |-> MessageMaxLength,
       errorMessage |-> "Please enter a message (10-1000 characters)"] ]

\* Enumeration order of "for (const fieldName in validationRules)".
RuleOrder == <<"name", "email", "message">>

RuleFields == {RuleOrder[i] : i \in 1..Len(RuleOrder)}

----------------------------------------------------------------------------
(* Email format checker                                                    *)

NonSpaceNonAt(c) == ~IsWhiteSpace(c) /\ c # "@"

\* /^[^\s@]+@[^\s@]+\.[^\s@]+$/.test(s): some "@" at i and some "." at j
\* split s into three non-empty runs of [^\s@].
EmailPatternTest(s) ==
  \E i \in 2..Len(s) :
    /\ s[i] = "@"
    /\ \A k \in 1..(i - 1) : NonSpaceNonAt(s[k])
    /\ \E j \in (i + 2)..(Len(s) - 1) :
         /\ s[j] = "."
         /\ \A k \in (i + 1)..(j - 1) : NonSpaceNonAt(s[k])
         /\ \A k \in (j + 1)..Len(s) : NonSpaceNonAt(s[k])

\* Variant: the pattern is tested against the untrimmed string.
validateEmailNoTrim(email) ==
  IF email.type # "string" THEN FALSE
  ELSE IF Trim(email.str) = <<>> THEN FALSE
  ELSE EmailPatternTest(email.str)

validateEmail(email) ==
  IF email.type # "string" THEN FALSE
  ELSE LET trimmedEmail == Trim(email.str)
       IN  IF trimmedEmail = <<>> THEN FALSE
           ELSE EmailPatternTest(trimmedEmail)

----------------------------------------------------------------------------
(* Field validator                                                         *)

Pass == [isValid |-> TRUE, errorMessage |-> ""]

\* Variant: a failure that carries no message.
FailWithoutMessage(rules) == [isValid |-> FALSE, errorMessage |-> ""]

Fail(rules) == [isValid |-> FALSE, errorMessage |-> rules.errorMessage]

\* Variant: the length bounds are exclusive.
validateFieldExclusiveBounds(fieldName, value) ==
  IF fieldName \notin DOMAIN validationRules THEN Pass
  ELSE
    LET rules == validationRules[fieldName]
        trimmedValue == IF value.type = "string" THEN Trim(value.str) ELSE <<>>
    IN  IF rules.required /\ trimmedValue = <<>> THEN Fail(rules)
        ELSE IF ~rules.required /\ trimmedValue = <<>> THEN Pass
        ELSE IF fieldName = "email" /\ ~validateEmail(JsString(trimmedValue))
          THEN Fail(rules)
        ELSE IF rules.minLength # 0 /\ Len(trimmedValue) <= rules.minLength
          THEN Fail(rules)
        ELSE IF rules.maxLength # 0 /\ Len(trimmedValue) >= rules.maxLength
          THEN Fail(rules)
        ELSE Pass

\* Variant: a field name without a rule is treated as a required field.
validateFieldWithUnknownRequired(table, fieldName, value) ==
  LET trimmedValue == IF value.type = "string" THEN Trim(value.str) ELSE <<>>
  IN  IF fieldName \notin DOMAIN table
        THEN IF trimmedValue = <<>> THEN FailWithoutMessage(table) ELSE Pass
        ELSE Pass

\* Variant: the length bounds are tested before the optional-and-empty case.
validateFieldWithLengthFirst(table, fieldName, value) ==
  IF fieldName \notin DOMAIN table THEN Pass
  ELSE
    LET rules == table[fieldName]
        trimmedValue == IF value.type = "string" THEN Trim(value.str) ELSE <<>>
    IN  IF rules.required /\ trimmedValue = <<>> THEN Fail(rules)
        ELSE IF rules.minLength # 0 /\ Len(trimmedValue) < rules.minLength
          THEN Fail(rules)
        ELSE IF rules.maxLength # 0 /\ Len(trimmedValue) > rules.maxLength
          THEN Fail(rules)
        ELSE IF ~rules.required /\ trimmedValue = <<>> THEN Pass
        ELSE IF fieldName = "email" /\ ~validateEmail(JsString(trimmedValue))
          THEN Fail(rules)
        ELSE Pass

\* validateField reading the rules from table: the exported validationRules
\* object, which a script can add rules to.
validateFieldWith(table, fieldName, value) ==
  IF fieldName \notin DOMAIN table THEN Pass
  ELSE
    LET rules == table[fieldName]
        trimmedValue == IF value.type = "string" THEN Trim(value.str) ELSE <<>>
    IN  IF rules.required /\ trimmedValue = <<>> THEN Fail(rules)
        ELSE IF ~rules.required /\ trimmedValue = <<>> THEN Pass
        ELSE IF fieldName = "email" /\ ~validateEmail(JsString(trimmedValue))
          THEN Fail(rules)
        ELSE IF rules.minLength # 0 /\ Len(trimmedValue) < rules.minLength
          THEN Fail(rules)
        ELSE IF rules.maxLength # 0 /\ Len(trimmedValue) > rules.maxLength
          THEN Fail(rules)
        ELSE Pass

validateField(fieldName, value) ==
  validateFieldWith(validationRules, fieldName, value)

----------------------------------------------------------------------------
(* Form validator                                                          *)

\* formData[fieldName]: a missing key reads as undefined.
Get(formData, fieldName) ==
  IF fieldName \in DOMAIN formData THEN formData[fieldName] ELSE Undefined

\* formData[fieldName] || ''
OrEmpty(v) == IF v.truthy THEN v ELSE JsString(<<>>)

\* The errors object is the sequence of its [key, value] entries in
\* insertion order (the order for...in enumerates them).
RECURSIVE validateFormFrom(_, _, _)
validateFormFrom(formData, i, acc) ==
  IF i > Len(RuleOrder) THEN acc
  ELSE
    LET fieldName == RuleOrder[i]
        value == OrEmpty(Get(formData, fieldName))
        result == validateField(fieldName, value)
    IN  IF ~result.isValid
          THEN validateFormFrom(formData, i + 1,
                 [isValid |-> FALSE,
                  errors |-> Append(acc.errors,
                               [key |-> fieldName, value |-> result.errorMessage])])
          ELSE validateFormFrom(formData, i + 1, acc)

\* Variant: the loop stops at the first field that fails.
validateFormFirstErrorOnly(formData) ==
  LET all == validateFormFrom(formData, 1, [isValid |-> TRUE, errors |-> <<>>])
  IN  IF all.isValid THEN all
      ELSE [isValid |-> FALSE, errors |-> <<all.errors[1]>>]

validateForm(formData) ==
  validateFormFrom(formData, 1, [isValid |-> TRUE, errors |-> <<>>])

\* Object.keys(errors) and errors[k]
Keys(errors) == {errors[i].key : i \in 1..Len(errors)}

Lookup(errors, k) == errors[CHOOSE i \in 1..Len(errors) : errors[i].key = k].value

----------------------------------------------------------------------------
(* State                                                                   *)

VARIABLES
  call,           \* a direct call of an exported validator function
  elements,       \* form.elements: value and error display of each input
  counter,        \* #message-counter
  activeElement,  \* document.activeElement
  submitButton,   \* #contact-submit
  formDisplay,    \* #contact-form style.display
  successHidden,  \* #form-success hidden
  errorHidden,    \* #form-error hidden
  outstanding,    \* fetch calls of submitForm not yet settled
  lastEvent,      \* the handler that ran last, and what it decided
  isMenuOpen,     \* navigation module: let isMenuOpen
  navMenuActive,  \* #nav-menu has class is-active
  ariaExpanded,   \* #nav-toggle aria-expanded
  bodyOverflow,   \* document.body.style.overflow
  scrollY,        \* window.scrollY, in units of 1/PositionScale px
  ticking,        \* initStickyNavigation: let ticking
  headerSticky,   \* .site-header has class is-sticky
  scrolls,        \* the smoothScrollTo calls that started an animation
  urlHash,        \* location.hash without "#", as set by history.pushState
  observer,       \* AnimationController.observer: its index in observers, 0 for null
  observers,      \* the IntersectionObservers that initScrollAnimations created
  isVisible,      \* the elements that have class is-visible
  animEvent       \* the controller method or observer callback that ran last

\* The state of the navigation and smooth scroll modules
chromeVars ==
  <<isMenuOpen, navMenuActive, ariaExpanded, bodyOverflow, scrollY, ticking,
    headerSticky, scrolls, urlHash>>

\* The state of the animations module
animVars == <<observer, observers, isVisible, animEvent>>

vars ==
  <<call, elements, counter, activeElement, submitButton, formDisplay,
    successHidden, errorHidden, outstanding, lastEvent, chromeVars, animVars>>

pageVars ==
  <<elements, counter, activeElement, submitButton, formDisplay,
    successHidden, errorHidden, outstanding, lastEvent, chromeVars, animVars>>

\* The state of the contact form that the other modules never write
formVars ==
  <<call, elements, counter, submitButton, formDisplay, successHidden,
    errorHidden, outstanding>>

----------------------------------------------------------------------------
(* DOM helpers of the controller                                           *)

showFieldError(els, name, message) ==
  [els EXCEPT ![name] =
     [@ EXCEPT !.errorClass = TRUE, !.ariaInvalid = "true",
               !.errorText = message, !.errorVisible = TRUE]]

clearFieldError(els, name) ==
  [els EXCEPT ![name] =
     [@ EXCEPT !.errorClass = FALSE, !.ariaInvalid = "false",
               !.errorText = "", !.errorVisible = FALSE]]

\* inputs.forEach(input => clearFieldError(input))
RECURSIVE clearAllFieldErrors(_, _)
clearAllFieldErrors(els, i) ==
  IF i > Len(RuleOrder) THEN els
  ELSE clearAllFieldErrors(clearFieldError(els, RuleOrder[i]), i + 1)

\* Variant: only the first entry of errors is rendered.
showFirstFieldErrorOnly(els, errors, i) ==
  IF i > Len(errors) THEN els
  ELSE showFieldError(els, errors[i].key, errors[i].value)

\* for (const fieldName in validation.errors) showFieldError(...)
RECURSIVE showAllFieldErrors(_, _, _)
showAllFieldErrors(els, errors, i) ==
  IF i > Len(errors) THEN els
  ELSE showAllFieldErrors(showFieldError(els, errors[i].key, errors[i].value),
                          errors, i + 1)

\* Variant: the warning starts at 90% of maxLength, not above it.
updateCharacterCounterInclusive(currentLength) ==
  [current |-> currentLength,
   max |-> validationRules.message.maxLength,
   warning |-> currentLength * 10 >= validationRules.message.maxLength * 9,
   error |-> currentLength > validationRules.message.maxLength]

\* counter.textContent is current/max; currentLength > maxLength * 0.9 is
\* compared in integers (maxLength * 0.9 is exactly 900).
updateCharacterCounter(currentLength) ==
  [current |-> currentLength,
   max |-> validationRules.message.maxLength,
   warning |-> currentLength * 10 > validationRules.message.maxLength * 9,
   error |-> currentLength > validationRules.message.maxLength]

\* Variant: the loading state never disables the button.
setLoadingStateNoDisable(isLoading) ==
  IF isLoading
    THEN [loading |-> TRUE, disabled |-> FALSE, ariaBusy |-> "true"]
    ELSE [loading |-> FALSE, disabled |-> FALSE, ariaBusy |-> "false"]

setLoadingState(isLoading) ==
  IF isLoading
    THEN [loading |-> TRUE, disabled |-> TRUE, ariaBusy |-> "true"]
    ELSE [loading |-> FALSE, disabled |-> FALSE, ariaBusy |-> "false"]

\* Variant: a blur re-validates every input of the form.
handleFieldBlurAllInputs(els, name) ==
  [f \in RuleFields |->
     LET result == validateField(f, JsString(els[f].value))
     IN  IF ~result.isValid
           THEN showFieldError(els, f, result.errorMessage)[f]
           ELSE clearFieldError(els, f)[f]]

\* handleFieldBlur on the input called name
handleFieldBlur(els, name) ==
  LET result == validateField(name, JsString(els[name].value))
  IN  IF ~result.isValid
        THEN showFieldError(els, name, result.errorMessage)
        ELSE clearFieldError(els, name)

\* Variant: an input event never touches a displayed error.
handleFieldInputKeepsError(els, name) == els

\* Variant: every input event validates, whether an error is shown or not.
handleFieldInputAlwaysValidates(els, name) ==
  LET result == validateField(name, JsString(els[name].value))
  IN  IF result.isValid
        THEN clearFieldError(els, name)
        ELSE showFieldError(els, name, result.errorMessage)

\* The error-display part of handleFieldInput
handleFieldInput(els, name) ==
  IF els[name].errorClass
    THEN LET result == validateField(name, JsString(els[name].value))
         IN  IF result.isValid THEN clearFieldError(els, name) ELSE els
    ELSE els

\* element.focus(): the input that loses focus receives a blur event.
FocusMoves(els, target) ==
  IF activeElement \in RuleFields /\ activeElement # target
    THEN handleFieldBlur(els, activeElement)
    ELSE els

----------------------------------------------------------------------------
(* Animations module: AnimationController                                  *)

MaxObservers == 2

\* The [data-animate] elements of the page and their data-animate-once
\* attribute ("undefined" when the attribute is absent)
AnimateOnceAttr == [plain |-> "undefined", repeat |-> "false"]

AnimElements == DOMAIN AnimateOnceAttr

\* defaultConfig.once
DefaultOnce == TRUE

\* new IntersectionObserver(callback, options): the config its callback
\* closes over, and the elements it observes
NewObserver(once, targets) == [once |-> once, targets |-> targets]

NoAnimEvent ==
  [op |-> "load", observer |-> 0, target |-> "", isIntersecting |-> FALSE,
   threw |-> FALSE]

AnimEvent(op, o, target, isIntersecting, threw) ==
  [op |-> op, observer |-> o, target |-> target,
   isIntersecting |-> isIntersecting, threw |-> threw]

\* What the controller reads and writes
AnimState ==
  [observer |-> observer, observers |-> observers, isVisible |-> isVisible,
   threw |-> FALSE]

SetAnimState(st) ==
  /\ observer' = st.observer
  /\ observers' = st.observers
  /\ isVisible' = st.isVisible

\* initScrollAnimations(customConfig): a new observer replaces
\* this.observer and observes every [data-animate] element.
initScrollAnimations(st, once) ==
  [st EXCEPT !.observers = Append(@, NewObserver(once, AnimElements)),
             !.observer = Len(st.observers) + 1]

\* handleReducedMotion
handleReducedMotion(st) == [st EXCEPT !.isVisible = @ \cup AnimElements]

\* init(), IntersectionObserver being supported
init(st, prefersReducedMotion) ==
  IF prefersReducedMotion
    THEN handleReducedMotion(st)
    ELSE initScrollAnimations(st, DefaultOnce)

\* Variant: an element that came into view is never unobserved.
handleIntersectionKeepsObserving(st, o, element, isIntersecting) ==
  IF isIntersecting
    THEN [st EXCEPT !.isVisible = @ \cup {element}]
    ELSE IF AnimateOnceAttr[element] = "false"
      THEN [st EXCEPT !.isVisible = @ \ {element}]
      ELSE st

\* handleIntersection(entry, config), called by the callback of observer o.
\* this.observer.unobserve throws a TypeError when this.observer is null.
handleIntersection(st, o, element, isIntersecting) ==
  IF isIntersecting
    THEN LET shown == [st EXCEPT !.isVisible = @ \cup {element}]
             animateOnce == AnimateOnceAttr[element] # "false"
         IN  IF st.observers[o].once /\ animateOnce
               THEN IF st.observer = 0
                      THEN [shown EXCEPT !.threw = TRUE]
                      ELSE [shown EXCEPT
                              !.observers[st.observer].targets = @ \ {element}]
               ELSE shown
    ELSE IF AnimateOnceAttr[element] = "false"
      THEN [st EXCEPT !.isVisible = @ \ {element}]
      ELSE st

\* observe(element)
observe(st, element) ==
  IF st.observer # 0
    THEN [st EXCEPT !.observers[st.observer].targets = @ \cup {element}]
    ELSE st

\* unobserve(element)
unobserve(st, element) ==
  IF st.observer # 0
    THEN [st EXCEPT !.observers[st.observer].targets = @ \ {element}]
    ELSE st

\* destroy()
destroy(st) ==
  IF st.observer # 0
    THEN [st EXCEPT !.observers[st.observer].targets = {}, !.observer = 0]
    ELSE st

\* The module has loaded on a page without a reduced-motion preference:
\* init() has run once.
AnimationsLoaded ==
  /\ observer = 1
  /\ observers = <<NewObserver(DefaultOnce, AnimElements)>>
  /\ isVisible = {}
  /\ animEvent = NoAnimEvent

----------------------------------------------------------------------------
(* The page after initContactForm                                          *)

NoCall ==
  [op |-> "none", fieldName |-> "", lead |-> <<>>, base |-> <<>>, trail |-> <<>>,
   value |-> Undefined, formData |-> [f \in RuleFields |-> Undefined],
   ruleEdit |-> "",
   done |-> FALSE, retBool |-> FALSE, retField |-> Pass,
   retForm |-> [isValid |-> TRUE, errors |-> <<>>]]

NoEvent ==
  [type |-> "init", field |-> "", valid |-> TRUE, outcome |-> "",
   hadError |-> {}]

InitialInput ==
  [value |-> <<>>, errorClass |-> FALSE, ariaInvalid |-> "",
   errorText |-> "", errorVisible |-> FALSE]

\* The page as loaded: menu closed, at the top, no smooth scroll started.
ChromeInit ==
  /\ isMenuOpen = FALSE
  /\ navMenuActive = FALSE
  /\ ariaExpanded = "false"
  /\ bodyOverflow = ""
  /\ scrollY = 0
  /\ ticking = FALSE
  /\ headerSticky = FALSE
  /\ scrolls = <<>>
  /\ urlHash = ""

FormPageInit ==
  /\ elements = [f \in RuleFields |-> InitialInput]
  /\ counter = updateCharacterCounter(0)
  /\ activeElement = "body"
  /\ submitButton = [loading |-> FALSE, disabled |-> FALSE, ariaBusy |-> ""]
  /\ formDisplay = ""
  /\ successHidden = TRUE
  /\ errorHidden = TRUE
  /\ outstanding = 0
  /\ lastEvent = NoEvent

PageInit ==
  /\ FormPageInit
  /\ ChromeInit
  /\ AnimationsLoaded

Init ==
  /\ call = NoCall
  /\ PageInit

----------------------------------------------------------------------------
(* What the visitor types                                                  *)

ValidEmailText == <<"a", "@", "b", ".", "c">>

TypedValues(f) ==
  CASE f = "name" ->
         { <<>>, Rep("J", NameMinLength - 1), Rep("J", NameMinLength),
           <<" ">> \o Rep("J", NameMinLength) \o <<" ">> }
    [] f = "email" ->
         { <<>>, <<"a", "@", "b">>, ValidEmailText }
    [] f = "message" ->
         { <<>>, Rep("A", MessageMinLength - 1), Rep("A", MessageMinLength),
           Rep("A", (MessageMaxLength * 9) \div 10),
           Rep("A", (MessageMaxLength * 9) \div 10 + 1),
           Rep("A", MessageMaxLength), Rep("A", MessageMaxLength + 1),
           Rep("A", MessageMaxLength) \o <<" ">> }

ErrorFields(els) == {f \in RuleFields : els[f].errorClass}

Event(type, field, valid, outcome) ==
  [type |-> type, field |-> field, valid |-> valid, outcome |-> outcome,
   hadError |-> ErrorFields(elements)]

----------------------------------------------------------------------------
(* Visitor events and their handlers                                       *)

\* The visitor moves focus into an input; the input that had it is blurred.
FocusField(f) ==
  /\ formDisplay # "none"
  /\ activeElement # f
  /\ elements' = FocusMoves(elements, f)
  /\ activeElement' = f
  /\ lastEvent' = Event("focus", f, TRUE, "")
  /\ UNCHANGED <<call, counter, submitButton, formDisplay, successHidden,
                 errorHidden, outstanding, chromeVars, animVars>>

\* The focused input loses focus: handleFieldBlur.
BlurField ==
  /\ activeElement \in RuleFields
  /\ elements' = handleFieldBlur(elements, activeElement)
  /\ activeElement' = "body"
  /\ lastEvent' = Event("blur", activeElement,
                        validateField(activeElement,
                                      JsString(elements[activeElement].value)).isValid,
                        "")
  /\ UNCHANGED <<call, counter, submitButton, formDisplay, successHidden,
                 errorHidden, outstanding, chromeVars, animVars>>

\* The visitor edits the focused input: handleFieldInput.
InputField(v) ==
  /\ formDisplay # "none"
  /\ activeElement \in RuleFields
  /\ v \in TypedValues(activeElement)
  /\ v # elements[activeElement].value
  /\ LET typed == [elements EXCEPT ![activeElement].value = v]
     IN  /\ counter' = IF activeElement = "message"
                         THEN updateCharacterCounter(Len(v))
                         ELSE counter
         /\ elements' = handleFieldInput(typed, activeElement)
  /\ lastEvent' = Event("input", activeElement,
                        validateField(activeElement, JsString(v)).isValid, "")
  /\ UNCHANGED <<call, activeElement, submitButton, formDisplay, successHidden,
                 errorHidden, outstanding, chromeVars, animVars>>

\* The browser delivers a submit event only through an enabled submit button
\* of a rendered form (button click or implicit submission).
SubmitEventEnabled ==
  /\ formDisplay # "none"
  /\ ~submitButton.disabled

\* formData gathered by handleFormSubmit
FormDataOf(els) == [f \in RuleFields |-> JsString(els[f].value)]

\* Variant: the last entry of errors is taken.
LastInvalidField(errors) == errors[Len(errors)].key

\* firstInvalidField: the input of the first entry of validation.errors
FirstInvalidField(errors) == errors[1].key

\* Variant: the invalid branch does not return and the request is sent.
ShowValidationErrorsNoReturn(validation, cleared) ==
  LET shown == showAllFieldErrors(cleared, validation.errors, 1)
      firstInvalidField == FirstInvalidField(validation.errors)
  IN  /\ elements' = FocusMoves(shown, firstInvalidField)
      /\ activeElement' = firstInvalidField
      /\ submitButton' = setLoadingState(TRUE)
      /\ outstanding' = outstanding + 1

\* handleFormSubmit, validation failed: render the errors, focus, return.
ShowValidationErrors(validation, cleared) ==
  LET shown == showAllFieldErrors(cleared, validation.errors, 1)
      firstInvalidField == FirstInvalidField(validation.errors)
  IN  /\ elements' = FocusMoves(shown, firstInvalidField)
      /\ activeElement' = firstInvalidField
      /\ UNCHANGED <<submitButton, outstanding>>

\* handleFormSubmit, validation passed: loading state, then submitForm.
StartSubmission(cleared) ==
  /\ elements' = cleared
  /\ submitButton' = setLoadingState(TRUE)
  /\ outstanding' = outstanding + 1
  /\ UNCHANGED activeElement

\* Variant: the submit handler leaves the error banner as it is.
SubmitKeepsErrorBanner ==
  /\ SubmitEventEnabled
  /\ outstanding < MaxOutstanding
  /\ LET formData == FormDataOf(elements)
         validation == validateForm(formData)
         cleared == clearAllFieldErrors(elements, 1)
     IN  /\ lastEvent' = Event("submit", "", validation.isValid, "")
         /\ IF ~validation.isValid
              THEN ShowValidationErrors(validation, cleared)
              ELSE StartSubmission(cleared)
  /\ UNCHANGED <<call, counter, formDisplay, successHidden, errorHidden,
                 chromeVars, animVars>>

\* handleFormSubmit up to its await
Submit ==
  /\ SubmitEventEnabled
  /\ outstanding < MaxOutstanding
  /\ LET formData == FormDataOf(elements)
         validation == validateForm(formData)
         cleared == clearAllFieldErrors(elements, 1)
     IN  /\ errorHidden' = TRUE
         /\ lastEvent' = Event("submit", "", validation.isValid, "")
         /\ IF ~validation.isValid
              THEN ShowValidationErrors(validation, cleared)
              ELSE StartSubmission(cleared)
  /\ UNCHANGED <<call, counter, formDisplay, successHidden, chromeVars, animVars>>

\* submitForm: the promise is fulfilled only by an OK response.
submitForm(outcome) == IF outcome = "ok" THEN "fulfilled" ELSE "rejected"

Outcomes == {"ok", "notOk", "networkError"}

\* Variant: the success message is shown and the form stays.
showSuccessMessageKeepsForm ==
  /\ successHidden' = FALSE
  /\ elements' = FocusMoves(elements, "form-success")
  /\ activeElement' = "form-success"
  /\ UNCHANGED <<formDisplay, errorHidden>>

\* showSuccessMessage
showSuccessMessage ==
  /\ formDisplay' = "none"
  /\ successHidden' = FALSE
  /\ elements' = FocusMoves(elements, "form-success")
  /\ activeElement' = "form-success"
  /\ UNCHANGED errorHidden

\* Variant: the failure also resets the inputs of the form.
showSubmissionErrorResetsForm ==
  /\ errorHidden' = FALSE
  /\ elements' = [f \in RuleFields |-> [elements[f] EXCEPT !.value = <<>>]]
  /\ UNCHANGED <<formDisplay, successHidden, activeElement>>

\* showSubmissionError
showSubmissionError ==
  /\ errorHidden' = FALSE
  /\ UNCHANGED <<formDisplay, successHidden, elements, activeElement>>

\* Variant: the loading state is cleared after a success only.
FetchSettlesNoFinally(outcome) ==
  /\ outstanding > 0
  /\ outstanding' = outstanding - 1
  /\ IF submitForm(outcome) = "fulfilled"
       THEN showSuccessMessage /\ submitButton' = setLoadingState(FALSE)
       ELSE showSubmissionError /\ UNCHANGED submitButton
  /\ lastEvent' = Event("settle", "", TRUE, outcome)
  /\ UNCHANGED <<call, counter, chromeVars, animVars>>

\* The transport settles: handleFormSubmit after its await
\* (try / catch / finally).
FetchSettles(outcome) ==
  /\ outstanding > 0
  /\ outstanding' = outstanding - 1
  /\ IF submitForm(outcome) = "fulfilled"
       THEN showSuccessMessage
       ELSE showSubmissionError
  /\ submitButton' = setLoadingState(FALSE)
  /\ lastEvent' = Event("settle", "", TRUE, outcome)
  /\ UNCHANGED <<call, counter, chromeVars, animVars>>

Next ==
  \/ \E f \in RuleFields : FocusField(f)
  \/ BlurField
  \/ \E v \in UNION {TypedValues(f) : f \in RuleFields} : InputField(v)
  \/ Submit
  \/ \E outcome \in Outcomes : FetchSettles(outcome)

Spec == Init /\ [][Next]_vars

\* The transport always settles each call, one way or the other.
LiveSpec == Spec /\ WF_vars(\E outcome \in Outcomes : FetchSettles(outcome))

----------------------------------------------------------------------------
(* Direct calls of validateEmail, validateField and validateForm           *)

Pads == UNION {[1..k -> WhiteSpace] : k \in 0..MaxPad}

StrUpTo(n) == UNION {[1..k -> Chars] : k \in 0..n}

BoundaryLengths ==
  { NameMinLength - 1, NameMinLength, NameMaxLength, NameMaxLength + 1,
    MessageMinLength - 1, MessageMinLength, MessageMaxLength,
    MessageMaxLength + 1 }

PadBases ==
  StrUpTo(MaxBaseLen) \cup {ValidEmailText}
    \cup {Rep("A", n) : n \in BoundaryLengths}

\* A string argument is lead \o base \o trail, lead and trail white space.
PaddedArgs == [lead : Pads, base : PadBases, trail : Pads]

PlainArgs == [lead : {<<>>}, base : StrUpTo(MaxStrLen), trail : {<<>>}]

UnknownField == "phone"

FormValues ==
  { JsString(<<>>), JsString(<<" ">>), JsString(<<"J">>), JsString(<<"J", "J">>),
    JsString(ValidEmailText), JsString(<<" ">> \o ValidEmailText),
    JsString(Rep("A", MessageMinLength)), JsString(Rep("A", MessageMaxLength + 1)),
    Undefined,
    [type |-> "number", str |-> <<>>, truthy |-> FALSE],
    [type |-> "number", str |-> <<>>, truthy |-> TRUE],
    [type |-> "object", str |-> <<>>, truthy |-> TRUE] }

\* Values given under a key that has no rule
ExtraValues ==
  { JsString(<<>>), JsString(<<"J">>),
    [type |-> "object", str |-> <<>>, truthy |-> TRUE] }

\* The rule a test adds to the exported table
OptionalRule ==
  [required |-> FALSE, minLength |-> 2, maxLength |-> 100,
   errorMessage |-> "Optional field error"]

OptionalField == "optional"

\* Edits of the exported rule table: the optional rule is added, or one of
\* the three rules is made optional.
RuleEdits == {OptionalField} \cup RuleFields

EditedRules(edit) ==
  IF edit = OptionalField
    THEN [f \in RuleFields \cup {OptionalField} |->
            IF f = OptionalField THEN OptionalRule ELSE validationRules[f]]
    ELSE [validationRules EXCEPT ![edit].required = FALSE]

StringCall(op, fieldName, a) ==
  [NoCall EXCEPT !.op = op, !.fieldName = fieldName,
                 !.lead = a.lead, !.base = a.base, !.trail = a.trail,
                 !.value = JsString(a.lead \o a.base \o a.trail)]

ValueCall(op, fieldName, v) ==
  [NoCall EXCEPT !.op = op, !.fieldName = fieldName, !.value = v]

\* The arguments of one call, not yet applied.
ValidatorInit ==
  /\ PageInit
  /\ \/ \E a \in PaddedArgs : call = StringCall("validateEmail", "", a)
     \/ \E a \in PlainArgs : call = StringCall("validateEmail", "", a)
     \/ \E v \in NonStrings : call = ValueCall("validateEmail", "", v)
     \/ \E f \in RuleFields, a \in PaddedArgs : call = StringCall("validateField", f, a)
     \/ \E f \in RuleFields, a \in PlainArgs : call = StringCall("validateField", f, a)
     \/ \E f \in RuleFields \cup {UnknownField}, v \in NonStrings :
          call = ValueCall("validateField", f, v)
     \/ \E a \in [lead : Pads, base : {<<>>, ValidEmailText}, trail : {<<>>}] :
          call = StringCall("validateField", UnknownField, a)
     \/ \E S \in SUBSET RuleFields : \E fd \in [S -> FormValues] :
          call = [NoCall EXCEPT !.op = "validateForm", !.formData = fd]
     \/ \E S \in SUBSET RuleFields : \E fd \in [S -> FormValues] :
          \E x \in ExtraValues :
            call = [NoCall EXCEPT
                      !.op = "validateForm",
                      !.formData = [f \in S \cup {UnknownField} |->
                                      IF f = UnknownField THEN x ELSE fd[f]]]
     \/ \E e \in RuleEdits, a \in PaddedArgs :
          call = [StringCall("validateFieldEdited", e, a) EXCEPT !.ruleEdit = e]
     \/ \E e \in RuleEdits, v \in NonStrings :
          call = [ValueCall("validateFieldEdited", e, v) EXCEPT !.ruleEdit = e]

ApplyValidateEmail ==
  /\ call.op = "validateEmail"
  /\ ~call.done
  /\ call' = [call EXCEPT !.done = TRUE, !.retBool = validateEmail(call.value)]
  /\ UNCHANGED pageVars

ApplyValidateField ==
  /\ call.op = "validateField"
  /\ ~call.done
  /\ call' = [call EXCEPT !.done = TRUE,
                          !.retField = validateField(call.fieldName, call.value)]
  /\ UNCHANGED pageVars

\* validateField after a script edited FormValidator.validationRules
ApplyValidateFieldEdited ==
  /\ call.op = "validateFieldEdited"
  /\ ~call.done
  /\ call' = [call EXCEPT
                !.done = TRUE,
                !.retField = validateFieldWith(EditedRules(call.ruleEdit),
                                               call.fieldName, call.value)]
  /\ UNCHANGED pageVars

ApplyValidateForm ==
  /\ call.op = "validateForm"
  /\ ~call.done
  /\ call' = [call EXCEPT !.done = TRUE, !.retForm = validateForm(call.formData)]
  /\ UNCHANGED pageVars

ValidatorNext ==
  \/ ApplyValidateEmail
  \/ ApplyValidateField
  \/ ApplyValidateFieldEdited
  \/ ApplyValidateForm

ValidatorSpec == ValidatorInit /\ [][ValidatorNext]_vars

----------------------------------------------------------------------------
(* Scroll positions                                                        *)

\* One tick of the frame clock, in ms
TickMs == 400

animationDuration == 800

DurationTicks == animationDuration \div TickMs

\* easeInOutCubic of k / DurationTicks is a multiple of 1 / EaseScale.
EaseScale == (DurationTicks * DurationTicks * DurationTicks) \div 4

\* Scroll positions are counted in 1/PositionScale px, which keeps the
\* positions of up to three nested animations whole numbers.
PositionScale == EaseScale * EaseScale * EaseScale

Px(n) == n * PositionScale

----------------------------------------------------------------------------
(* Navigation module: mobile menu and sticky header                        *)

STICKY_THRESHOLD == 50

MaxScrollDelta == 2

\* Where the visitor may scroll to: the top, and positions around the
\* threshold, in whole pixels and in fractions of a pixel.
ScrollPositions ==
  {0}
    \cup {Px(STICKY_THRESHOLD + d) : d \in (-MaxScrollDelta)..MaxScrollDelta}
    \cup {Px(STICKY_THRESHOLD) + d : d \in (-MaxScrollDelta)..MaxScrollDelta}

\* The menu state that toggleMobileMenu and closeMobileMenu read and write
MenuState ==
  [isMenuOpen |-> isMenuOpen, navMenuActive |-> navMenuActive,
   ariaExpanded |-> ariaExpanded, bodyOverflow |-> bodyOverflow,
   activeElement |-> activeElement]

SetMenuState(m) ==
  /\ isMenuOpen' = m.isMenuOpen
  /\ navMenuActive' = m.navMenuActive
  /\ ariaExpanded' = m.ariaExpanded
  /\ bodyOverflow' = m.bodyOverflow
  /\ activeElement' = m.activeElement

\* toggleMobileMenu: the first nav link is focused on opening, the toggle
\* on closing.
toggleMobileMenu(m) ==
  LET open == ~m.isMenuOpen
  IN  [isMenuOpen |-> open,
       navMenuActive |-> open,
       ariaExpanded |-> IF open THEN "true" ELSE "false",
       bodyOverflow |-> IF open THEN "hidden" ELSE "",
       activeElement |-> IF open THEN "nav-link" ELSE "nav-toggle"]

\* Variant: closing leaves the body scroll lock in place.
closeMobileMenuKeepsScrollLock(m) ==
  IF m.isMenuOpen
    THEN [m EXCEPT !.isMenuOpen = FALSE, !.navMenuActive = FALSE,
                   !.ariaExpanded = "false"]
    ELSE m

closeMobileMenu(m) ==
  IF m.isMenuOpen
    THEN [m EXCEPT !.isMenuOpen = FALSE, !.navMenuActive = FALSE,
                   !.ariaExpanded = "false", !.bodyOverflow = ""]
    ELSE m

\* Click targets: the toggle, a nav link (inside the menu), the menu
\* outside its links, and anything else on the page.
ClickTargets == {"nav-toggle", "nav-link", "nav-menu", "outside"}

InsideMenu == {"nav-link", "nav-menu"}

\* Variant: every click that is not on the toggle closes the menu.
onDocumentClickIgnoresMenu(m, target) ==
  IF ~m.isMenuOpen THEN m
  ELSE IF target # "nav-toggle" THEN closeMobileMenu(m)
  ELSE m

\* The document click listener of initOutsideClickHandler
onDocumentClick(m, target) ==
  IF ~m.isMenuOpen THEN m
  ELSE IF target \notin InsideMenu /\ target # "nav-toggle" THEN closeMobileMenu(m)
  ELSE m

\* The click listeners of the target itself (initMobileMenu and
\* initNavLinkClickHandler), which run before the event reaches document.
onTargetClick(m, target) ==
  CASE target = "nav-toggle" -> toggleMobileMenu(m)
    [] target = "nav-link" -> closeMobileMenu(m)
    [] OTHER -> m

NavEvent(type, target, key) ==
  [type |-> type, field |-> target, valid |-> isMenuOpen, outcome |-> key,
   hadError |-> {}]

\* A click: the target's listeners, then the document listener.
Click(target) ==
  /\ SetMenuState(onDocumentClick(onTargetClick(MenuState, target), target))
  /\ lastEvent' = NavEvent("click", target, "")
  /\ UNCHANGED <<formVars, animVars, scrollY, ticking, headerSticky, scrolls, urlHash>>

NavKeys == {"Escape", "Enter", " "}

\* The keydown listener of the toggle (Enter and Space)
onToggleKeydown(m, key) ==
  IF key = "Enter" \/ key = " " THEN toggleMobileMenu(m) ELSE m

\* The document keydown listener (Escape)
onDocumentKeydown(m, key) ==
  IF key = "Escape" /\ m.isMenuOpen
    THEN [closeMobileMenu(m) EXCEPT !.activeElement = "nav-toggle"]
    ELSE m

\* A key press goes to the focused element and then to document.
Keydown(key) ==
  /\ LET atTarget == IF activeElement = "nav-toggle"
                       THEN onToggleKeydown(MenuState, key)
                       ELSE MenuState
     IN  SetMenuState(onDocumentKeydown(atTarget, key))
  /\ lastEvent' = NavEvent("keydown", activeElement, key)
  /\ UNCHANGED <<formVars, animVars, scrollY, ticking, headerSticky, scrolls, urlHash>>

\* The visitor tabs to the toggle button.
FocusNavToggle ==
  /\ activeElement # "nav-toggle"
  /\ activeElement' = "nav-toggle"
  /\ lastEvent' = NavEvent("focus", "nav-toggle", "")
  /\ UNCHANGED <<formVars, animVars, isMenuOpen, navMenuActive, ariaExpanded,
                 bodyOverflow, scrollY, ticking, headerSticky, scrolls, urlHash>>

\* window.LuskNavigation.toggleMobileMenu()
ApiToggleMobileMenu ==
  /\ SetMenuState(toggleMobileMenu(MenuState))
  /\ lastEvent' = NavEvent("api", "toggleMobileMenu", "")
  /\ UNCHANGED <<formVars, animVars, scrollY, ticking, headerSticky, scrolls, urlHash>>

\* window.LuskNavigation.closeMobileMenu()
ApiCloseMobileMenu ==
  /\ SetMenuState(closeMobileMenu(MenuState))
  /\ lastEvent' = NavEvent("api", "closeMobileMenu", "")
  /\ UNCHANGED <<formVars, animVars, scrollY, ticking, headerSticky, scrolls, urlHash>>

\* Variant: the header is sticky from the threshold on.
updateStickyStateInclusive(y) == y >= Px(STICKY_THRESHOLD)

\* updateStickyState: whether the header gets class is-sticky
updateStickyState(y) == y > Px(STICKY_THRESHOLD)

\* The page scrolls to y and the scroll event runs onScroll.
Scroll(y) ==
  /\ y # scrollY
  /\ scrollY' = y
  /\ ticking' = TRUE
  /\ lastEvent' = NavEvent("scroll", "window", "")
  /\ UNCHANGED <<formVars, animVars, activeElement, isMenuOpen, navMenuActive,
                 ariaExpanded, bodyOverflow, headerSticky, scrolls, urlHash>>

\* The animation frame that onScroll requested runs updateStickyState.
StickyFrame ==
  /\ ticking
  /\ headerSticky' = updateStickyState(scrollY)
  /\ ticking' = FALSE
  /\ lastEvent' = NavEvent("frame", "updateStickyState", "")
  /\ UNCHANGED <<formVars, animVars, activeElement, isMenuOpen, navMenuActive,
                 ariaExpanded, bodyOverflow, scrollY, scrolls, urlHash>>

\* initNavigation has run on a page loaded at any scroll position.
NavInit ==
  /\ call = NoCall
  /\ FormPageInit
  /\ AnimationsLoaded
  /\ isMenuOpen = FALSE
  /\ navMenuActive = FALSE
  /\ ariaExpanded = "false"
  /\ bodyOverflow = ""
  /\ scrollY \in ScrollPositions
  /\ ticking = FALSE
  /\ headerSticky = updateStickyState(scrollY)
  /\ scrolls = <<>>
  /\ urlHash = ""

NavNext ==
  \/ \E target \in ClickTargets : Click(target)
  \/ \E key \in NavKeys : Keydown(key)
  \/ FocusNavToggle
  \/ ApiToggleMobileMenu
  \/ ApiCloseMobileMenu
  \/ \E y \in ScrollPositions : Scroll(y)
  \/ StickyFrame

NavSpec == NavInit /\ [][NavNext]_vars

----------------------------------------------------------------------------
(* Smooth scroll module                                                    *)

navHeight == 70

MaxScrolls == 2

MaxFrameGap == 2

\* The sections of the page and the distance of each from the document
\* top, in px
SectionTop ==
  [hero |-> 0, services |-> 500, about |-> 1000, contact |-> 1500]

SectionIds == DOMAIN SectionTop

\* The page scrolls until its last section is at the top of the viewport.
ScrollTopMax == Px(SectionTop["contact"])

\* window.scrollTo keeps the position within the scrollable range.
ClampScroll(y) ==
  IF y < 0 THEN 0 ELSE IF y > ScrollTopMax THEN ScrollTopMax ELSE y

Abs(n) == IF n < 0 THEN 0 - n ELSE n

\* easeInOutCubic(k / DurationTicks), in units of 1 / EaseScale:
\* t < 0.5 ? 4 * t * t * t : 1 - Math.pow(-2 * t + 2, 3) / 2
easeInOutCubic(k) ==
  IF 2 * k < DurationTicks
    THEN k * k * k
    ELSE EaseScale - (DurationTicks - k) * (DurationTicks - k) * (DurationTicks - k)

\* getNavOffset: --nav-height is not set, or set to the configured height.
getNavOffset == navHeight

\* Arguments of smoothScrollTo: the id with or without a leading "#", and
\* an offset that is a number of px or undefined.
TargetIds ==
  [prefix : {"", "#"}, name : SectionIds \cup {"nonexistent"}]

NoOffset == [type |-> "undefined", px |-> 0]

Offsets == {NoOffset, [type |-> "number", px |-> 100]}

\* The calls explored: every id without "#" and with the default offset,
\* and one section also with "#" and with an explicit offset.
ScrollCalls ==
  { c \in [targetId : TargetIds, offset : Offsets] :
      /\ c.targetId.prefix = "#" =>
           c.targetId.name = "services" /\ c.offset = NoOffset
      /\ c.offset # NoOffset =>
           c.targetId.name = "services" /\ c.targetId.prefix = "" }

\* targetId.replace(/^#/, '')
CleanId(targetId) == targetId.name

\* getBoundingClientRect().top of a section at scroll position y
RectTop(id, y) == Px(SectionTop[id]) - y

\* Variant: every call reports success.
ScrollEventReturnsTrue(type, target, returned, decided) ==
  [type |-> type, field |-> target, valid |-> TRUE, outcome |-> decided,
   hadError |-> {}]

ScrollEvent(type, target, returned, decided) ==
  [type |-> type, field |-> target, valid |-> returned, outcome |-> decided,
   hadError |-> {}]

\* The record of an animation that smoothScrollTo starts: its closure
\* variables, whether its frame callback is requested, and what it has done.
NewScroll(cleanId, scrollOffset, startPosition, targetPosition) ==
  [cleanId |-> cleanId,
   scrollOffset |-> scrollOffset,
   startPosition |-> startPosition,
   targetPosition |-> targetPosition,
   distance |-> targetPosition - startPosition,
   startTimeSet |-> FALSE,
   elapsed |-> 0,
   requested |-> TRUE,
   positionSet |-> FALSE,
   lastPosition |-> 0,
   hashUpdates |-> 0,
   focused |-> FALSE]

\* targetRect.top + startPosition - scrollOffset
targetPositionOf(id, startPosition, scrollOffset) ==
  RectTop(id, startPosition) + startPosition - Px(scrollOffset)

\* smoothScrollTo(targetId, offset)
SmoothScrollTo(targetId, offset) ==
  /\ Len(scrolls) < MaxScrolls
  /\ LET cleanId == CleanId(targetId)
     IN  IF cleanId \notin SectionIds
           THEN /\ lastEvent' = ScrollEvent("smoothScrollTo", cleanId, FALSE, "notFound")
                /\ UNCHANGED <<scrolls, urlHash>>
           ELSE LET scrollOffset == IF offset.type = "number" THEN offset.px
                                    ELSE getNavOffset
                    startPosition == scrollY
                    targetPosition ==
                      targetPositionOf(cleanId, startPosition, scrollOffset)
                    distance == targetPosition - startPosition
                IN  IF Abs(distance) < PositionScale
                      THEN /\ urlHash' = cleanId
                           /\ lastEvent' =
                                ScrollEvent("smoothScrollTo", cleanId, TRUE, "jump")
                           /\ UNCHANGED scrolls
                      ELSE /\ scrolls' =
                                Append(scrolls,
                                       NewScroll(cleanId, scrollOffset,
                                                 startPosition, targetPosition))
                           /\ lastEvent' =
                                ScrollEvent("smoothScrollTo", cleanId, TRUE, "animate")
                           /\ UNCHANGED urlHash
  /\ UNCHANGED <<formVars, animVars, activeElement, isMenuOpen, navMenuActive,
                 ariaExpanded, bodyOverflow, scrollY, ticking, headerSticky>>

\* currentTime - startTime in ticks; any time past the duration is kept as
\* one tick past it, since progress is Math.min(elapsed / duration, 1).
PastDuration(elapsed) ==
  IF elapsed > DurationTicks THEN DurationTicks + 1 ELSE elapsed

\* What the frame callbacks of one frame read and write
FrameState ==
  [scrollY |-> scrollY, scrolls |-> scrolls, urlHash |-> urlHash,
   activeElement |-> activeElement]

\* Variant: the animation ends without writing the URL hash.
animationStepNoHash(st, i, gap) ==
  LET a == st.scrolls[i]
      elapsed == IF a.startTimeSet THEN PastDuration(a.elapsed + gap) ELSE 0
      progress == IF elapsed < DurationTicks THEN elapsed ELSE DurationTicks
      currentPosition ==
        a.startPosition + (a.distance * easeInOutCubic(progress)) \div EaseScale
      stepped == [a EXCEPT !.startTimeSet = TRUE, !.elapsed = elapsed,
                           !.positionSet = TRUE, !.lastPosition = currentPosition]
  IN  IF progress < DurationTicks
        THEN [st EXCEPT !.scrollY = ClampScroll(currentPosition),
                        !.scrolls[i] = stepped]
        ELSE [st EXCEPT !.scrollY = ClampScroll(currentPosition),
                        !.scrolls[i] = [stepped EXCEPT !.requested = FALSE,
                                                       !.focused = TRUE],
                        !.activeElement = a.cleanId]

\* animationStep(currentTime) of scroll i, gap ticks after the frame before
animationStep(st, i, gap) ==
  LET a == st.scrolls[i]
      elapsed == IF a.startTimeSet THEN PastDuration(a.elapsed + gap) ELSE 0
      progress == IF elapsed < DurationTicks THEN elapsed ELSE DurationTicks
      currentPosition ==
        a.startPosition + (a.distance * easeInOutCubic(progress)) \div EaseScale
      stepped == [a EXCEPT !.startTimeSet = TRUE, !.elapsed = elapsed,
                           !.positionSet = TRUE, !.lastPosition = currentPosition]
  IN  IF progress < DurationTicks
        THEN [st EXCEPT !.scrollY = ClampScroll(currentPosition),
                        !.scrolls[i] = stepped]
        ELSE [st EXCEPT !.scrollY = ClampScroll(currentPosition),
                        !.scrolls[i] = [stepped EXCEPT !.requested = FALSE,
                                                       !.hashUpdates = @ + 1,
                                                       !.focused = TRUE],
                        !.urlHash = a.cleanId,
                        !.activeElement = a.cleanId]

\* Variant: the callbacks run newest first.
RECURSIVE RunFrameCallbacksNewestFirst(_, _, _)
RunFrameCallbacksNewestFirst(st, i, gap) ==
  LET k == Len(st.scrolls) + 1 - i
  IN  IF i > Len(st.scrolls) THEN st
      ELSE IF st.scrolls[k].requested
        THEN RunFrameCallbacksNewestFirst(animationStep(st, k, gap), i + 1, gap)
        ELSE RunFrameCallbacksNewestFirst(st, i + 1, gap)

\* The requested callbacks run in the order in which they were requested.
RECURSIVE RunFrameCallbacks(_, _, _)
RunFrameCallbacks(st, i, gap) ==
  IF i > Len(st.scrolls) THEN st
  ELSE IF st.scrolls[i].requested
    THEN RunFrameCallbacks(animationStep(st, i, gap), i + 1, gap)
    ELSE RunFrameCallbacks(st, i + 1, gap)

\* An animation frame, gap ticks after the one before. The sticky update
\* that the scroll events of the frame before requested runs after the
\* animation steps; a change of position is announced by a scroll event,
\* which requests the next sticky update.
Frame(gap) ==
  /\ ticking \/ \E i \in 1..Len(scrolls) : scrolls[i].requested
  /\ LET st == RunFrameCallbacks(FrameState, 1, gap)
     IN  /\ scrollY' = st.scrollY
         /\ scrolls' = st.scrolls
         /\ urlHash' = st.urlHash
         /\ activeElement' = st.activeElement
         /\ headerSticky' = IF ticking THEN updateStickyState(st.scrollY)
                            ELSE headerSticky
         /\ ticking' = (st.scrollY # scrollY)
  /\ lastEvent' = ScrollEvent("frame", "animationStep", TRUE, "")
  /\ UNCHANGED <<formVars, animVars, isMenuOpen, navMenuActive, ariaExpanded, bodyOverflow>>

\* Where the page may be when the first smooth scroll starts
InitialScrollY ==
  { 0,
    Px(SectionTop["services"] - navHeight) + PositionScale \div 2,
    Px(SectionTop["services"] - navHeight + 1) }

ScrollInit ==
  /\ call = NoCall
  /\ FormPageInit
  /\ AnimationsLoaded
  /\ isMenuOpen = FALSE
  /\ navMenuActive = FALSE
  /\ ariaExpanded = "false"
  /\ bodyOverflow = ""
  /\ scrollY \in InitialScrollY
  /\ ticking = FALSE
  /\ headerSticky = updateStickyState(scrollY)
  /\ scrolls = <<>>
  /\ urlHash = ""

ScrollNext ==
  \/ \E c \in ScrollCalls : SmoothScrollTo(c.targetId, c.offset)
  \/ \E gap \in 0..MaxFrameGap : Frame(gap)

ScrollSpec == ScrollInit /\ [][ScrollNext]_vars

----------------------------------------------------------------------------
(* Animations module: calls and observer callbacks                         *)

\* init() at load or from a script
AnimInitCall(prefersReducedMotion) ==
  /\ prefersReducedMotion \/ Len(observers) < MaxObservers
  /\ SetAnimState(init(AnimState, prefersReducedMotion))
  /\ animEvent' = AnimEvent("init", 0, "", FALSE, FALSE)
  /\ UNCHANGED <<formVars, activeElement, lastEvent, chromeVars>>

\* AnimationController.initScrollAnimations(customConfig) with customConfig
\* undefined (once stays true) or {once: false}
InitScrollAnimations(once) ==
  /\ Len(observers) < MaxObservers
  /\ SetAnimState(initScrollAnimations(AnimState, once))
  /\ animEvent' = AnimEvent("initScrollAnimations", 0, "", FALSE, FALSE)
  /\ UNCHANGED <<formVars, activeElement, lastEvent, chromeVars>>

\* Observer o reports that one of its targets entered or left the viewport.
Intersection(o, element, isIntersecting) ==
  /\ element \in observers[o].targets
  /\ LET st == handleIntersection(AnimState, o, element, isIntersecting)
     IN  /\ SetAnimState(st)
         /\ animEvent' =
              AnimEvent("intersection", o, element, isIntersecting, st.threw)
  /\ UNCHANGED <<formVars, activeElement, lastEvent, chromeVars>>

Observe(element) ==
  /\ SetAnimState(observe(AnimState, element))
  /\ animEvent' = AnimEvent("observe", 0, element, FALSE, FALSE)
  /\ UNCHANGED <<formVars, activeElement, lastEvent, chromeVars>>

Unobserve(element) ==
  /\ SetAnimState(unobserve(AnimState, element))
  /\ animEvent' = AnimEvent("unobserve", 0, element, FALSE, FALSE)
  /\ UNCHANGED <<formVars, activeElement, lastEvent, chromeVars>>

Destroy ==
  /\ SetAnimState(destroy(AnimState))
  /\ animEvent' = AnimEvent("destroy", 0, "", FALSE, FALSE)
  /\ UNCHANGED <<formVars, activeElement, lastEvent, chromeVars>>

\* animateElement(element, animationType)
AnimateElement(element) ==
  /\ isVisible' = isVisible \cup {element}
  /\ animEvent' = AnimEvent("animateElement", 0, element, FALSE, FALSE)
  /\ UNCHANGED <<formVars, activeElement, lastEvent, chromeVars, observer,
                 observers>>

\* resetAnimation(element)
ResetAnimation(element) ==
  /\ isVisible' = isVisible \ {element}
  /\ animEvent' = AnimEvent("resetAnimation", 0, element, FALSE, FALSE)
  /\ UNCHANGED <<formVars, activeElement, lastEvent, chromeVars, observer,
                 observers>>

\* The module at load: init() ran once, with or without a reduced-motion
\* preference.
AnimInit ==
  /\ call = NoCall
  /\ FormPageInit
  /\ ChromeInit
  /\ \E prefersReducedMotion \in BOOLEAN :
       LET st == init([observer |-> 0, observers |-> <<>>, isVisible |-> {},
                       threw |-> FALSE], prefersReducedMotion)
       IN  /\ observer = st.observer
           /\ observers = st.observers
           /\ isVisible = st.isVisible
  /\ animEvent = NoAnimEvent

AnimNext ==
  \/ \E prefersReducedMotion \in BOOLEAN : AnimInitCall(prefersReducedMotion)
  \/ \E once \in BOOLEAN : InitScrollAnimations(once)
  \/ \E o \in 1..Len(observers), element \in AnimElements,
        isIntersecting \in BOOLEAN : Intersection(o, element, isIntersecting)
  \/ \E element \in AnimElements : Observe(element)
  \/ \E element \in AnimElements : Unobserve(element)
  \/ Destroy
  \/ \E element \in AnimElements : AnimateElement(element)
  \/ \E element \in AnimElements : ResetAnimation(element)

AnimSpec == AnimInit /\ [][AnimNext]_vars

----------------------------------------------------------------------------
(* Vocabulary of the properties                                            *)

\* The part of s from its first to its last non-white-space character.
Core(s) ==
  IF \A i \in 1..Len(s) : IsWhiteSpace(s[i]) THEN <<>>
  ELSE LET first == CHOOSE i \in 1..Len(s) :
                      ~IsWhiteSpace(s[i]) /\ \A k \in 1..(i - 1) : IsWhiteSpace(s[k])
           last == CHOOSE i \in 1..Len(s) :
                     ~IsWhiteSpace(s[i]) /\ \A k \in (i + 1)..Len(s) : IsWhiteSpace(s[k])
       IN  [i \in 1..(last - first + 1) |-> s[first + i - 1]]

CoreLength(s) == Len(Core(s))

\* Exactly one "@", something before it, and after it a "." that has
\* something on both sides; no white space.
WellFormedEmail(t) ==
  LET ats == {i \in 1..Len(t) : t[i] = "@"}
  IN  /\ Cardinality(ats) = 1
      /\ \A i \in 1..Len(t) : ~IsWhiteSpace(t[i])
      /\ LET at == CHOOSE i \in ats : TRUE
         IN  /\ at > 1
             /\ \E d \in (at + 1)..Len(t) :
                  t[d] = "." /\ d > at + 1 /\ d < Len(t)

FailedFields(formData) ==
  {f \in RuleFields : ~validateField(f, Get(formData, f)).isValid}

ValidateFieldDone == call.op = "validateField" /\ call.done

----------------------------------------------------------------------------
(* Properties of the validators, checked under ValidatorSpec               *)

\* C1: validateForm is valid exactly when validateField passes for each of
\* name, email and message; its errors hold exactly the failed fields, each
\* with that field's message; so isValid holds iff errors is empty.
C1_FormValidIffAllFieldsValid ==
  (call.op = "validateForm" /\ call.done) =>
    LET r == call.retForm
        failed == FailedFields(call.formData)
    IN  /\ r.isValid <=> (failed = {})
        /\ Keys(r.errors) = failed
        /\ Len(r.errors) = Cardinality(failed)
        /\ \A f \in failed :
             Lookup(r.errors, f) =
               validateField(f, Get(call.formData, f)).errorMessage
        /\ r.isValid <=> (r.errors = <<>>)

C1_Witness ==
  /\ call.op = "validateForm"
  /\ call.done
  /\ ~call.retForm.isValid
  /\ Keys(call.retForm.errors) = {"name", "message"}
  /\ Get(call.formData, "name").type = "number"
  /\ Get(call.formData, "name").truthy

C3_LengthBoundsInclusive ==
  (ValidateFieldDone /\ call.fieldName \in {"name", "message"}
     /\ call.value.type = "string") =>
    LET n == CoreLength(call.value.str)
        lo == IF call.fieldName = "name" THEN 2 ELSE 10
        hi == IF call.fieldName = "name" THEN 100 ELSE 1000
    IN  call.retField.isValid <=> (lo <= n /\ n <= hi)

C3_Witness ==
  /\ ValidateFieldDone
  /\ call.fieldName = "message"
  /\ call.lead # <<>>
  /\ CoreLength(call.value.str) = 1000
  /\ call.retField.isValid

\* C4: validateEmail is true exactly for strings whose trimmed form is a
\* well-formed address, and false for every non-string.
C4_EmailAcceptedIffWellFormed ==
  (call.op = "validateEmail" /\ call.done) =>
    call.retBool <=>
      (call.value.type = "string" /\ WellFormedEmail(Core(call.value.str)))

C4_Witness ==
  /\ call.op = "validateEmail"
  /\ call.done
  /\ call.retBool
  /\ call.trail # <<>>
  /\ Cardinality({i \in 1..Len(call.base) : call.base[i] = "."}) = 1

\* C5: white space added before and after a value does not change the
\* result of validateField for name, email and message.
C5_PaddingDoesNotChangeResult ==
  (ValidateFieldDone /\ call.fieldName \in RuleFields
     /\ call.value.type = "string") =>
    call.retField = validateField(call.fieldName, JsString(call.base))

C5_Witness ==
  /\ ValidateFieldDone
  /\ call.fieldName = "email"
  /\ call.lead # <<>>
  /\ call.trail # <<>>
  /\ call.retField.isValid

----------------------------------------------------------------------------
(* Properties of the submission controller, checked under Spec / LiveSpec  *)

FailedSubmit == lastEvent.type = "submit" /\ ~lastEvent.valid

Loading ==
  submitButton.disabled \/ submitButton.loading \/ submitButton.ariaBusy = "true"

Idle == ~Loading /\ outstanding = 0 /\ formDisplay # "none" /\ successHidden

SuccessDisplayed == ~successHidden /\ formDisplay = "none"

FailedSettle == lastEvent.type = "settle" /\ lastEvent.outcome # "ok"

DisplaysError(els, f, message) ==
  /\ els[f].errorClass
  /\ els[f].ariaInvalid = "true"
  /\ els[f].errorText = message
  /\ els[f].errorVisible

DisplaysNoError(els, f) ==
  /\ ~els[f].errorClass
  /\ els[f].ariaInvalid # "true"
  /\ els[f].errorText = ""
  /\ ~els[f].errorVisible

C8_FocusOnFirstInvalidField ==
  FailedSubmit =>
    \E i \in 1..3 :
      /\ activeElement = <<"name", "email", "message">>[i]
      /\ ~validateField(activeElement, JsString(elements[activeElement].value)).isValid
      /\ \A k \in 1..(i - 1) :
           LET g == <<"name", "email", "message">>[k]
           IN  validateField(g, JsString(elements[g].value)).isValid

C8_Witness ==
  /\ FailedSubmit
  /\ activeElement = "email"
  /\ ErrorFields(elements) = {"email", "message"}

\* C9: a submission that entered the loading state always leaves it: once
\* the transport settles (ok, not ok or rejected) the control is enabled
\* and aria-busy is false.
C9_LoadingEventuallyCleared ==
  Loading ~> (~Loading /\ submitButton.ariaBusy = "false")

C9_Witness ==
  /\ lastEvent.type = "settle"
  /\ lastEvent.outcome = "networkError"
  /\ ~Loading
  /\ submitButton.ariaBusy = "false"
  /\ ~errorHidden

C13_BlurValidatesOnlyThatField ==
  [][ \A f \in RuleFields :
        (activeElement = f /\ activeElement' # f
           /\ lastEvent'.type \in {"blur", "focus"}) =>
          /\ IF validateField(f, JsString(elements[f].value)).isValid
               THEN DisplaysNoError(elements', f)
               ELSE DisplaysError(elements', f, validationRules[f].errorMessage)
          /\ elements'[f].value = elements[f].value
          /\ \A g \in RuleFields \ {f} : elements'[g] = elements[g]
          /\ UNCHANGED <<errorHidden, successHidden, submitButton, formDisplay,
                         outstanding, counter>> ]_vars

C13_Witness ==
  /\ lastEvent.type = "blur"
  /\ ~lastEvent.valid
  /\ ErrorFields(elements) = {lastEvent.field}
  /\ FailedFields(FormDataOf(elements)) = RuleFields
  /\ Idle

\* C14: on an input event of a field that displays an error, the error is
\* cleared if the new value validates and stays if it does not; a field
\* that displays no error displays none after the event.
C14_InputClearsErrorOnceValid ==
  [][ \A f \in RuleFields :
        (elements'[f].value # elements[f].value) =>
          LET valid == validateField(f, JsString(elements'[f].value)).isValid
          IN  /\ (elements[f].errorClass /\ valid) => DisplaysNoError(elements', f)
              /\ (elements[f].errorClass /\ ~valid) =>
                   /\ DisplaysError(elements', f, validationRules[f].errorMessage)
                   /\ DisplaysError(elements, f, validationRules[f].errorMessage)
              /\ ~elements[f].errorClass =>
                   /\ ~elements'[f].errorClass
                   /\ [elements'[f] EXCEPT !.value = elements[f].value] = elements[f] ]_vars

C14_Witness ==
  /\ lastEvent.type = "input"
  /\ lastEvent.field = "email"
  /\ "email" \in lastEvent.hadError
  /\ lastEvent.valid
  /\ DisplaysNoError(elements, "email")
  /\ ErrorFields(elements) = {"message"}

\* C15: the counter always shows the length of the message field over 1000;
\* it is in the warning state exactly above 900 characters and in the error
\* state exactly above 1000, so the error state implies the warning state
\* and exactly 900 or 1000 characters trigger neither.
C15_CounterThresholds ==
  /\ counter.current = Len(elements["message"].value)
  /\ counter.max = 1000
  /\ counter.warning <=> counter.current > 900
  /\ counter.error <=> counter.current > 1000
  /\ counter.error => counter.warning

C15_Witness ==
  /\ lastEvent.type = "input"
  /\ lastEvent.field = "message"
  /\ counter.current = 900
  /\ ~counter.warning
  /\ ~counter.error

----------------------------------------------------------------------------
(* Properties of the navigation module, checked under NavSpec              *)

MenuClosingEvent(e) ==
  \/ e.type = "keydown" /\ e.outcome = "Escape"
  \/ e.type = "click" /\ e.field \in {"outside", "nav-link"}

\* C16: the four representations of the menu state always agree:
\* isMenuOpen, class is-active on the menu, aria-expanded "true" on the
\* toggle, and overflow hidden on the body.
C16_MenuRepresentationsAgree ==
  /\ isMenuOpen <=> navMenuActive
  /\ isMenuOpen <=> (ariaExpanded = "true")
  /\ isMenuOpen <=> (bodyOverflow = "hidden")
  /\ ariaExpanded \in {"true", "false"}
  /\ bodyOverflow \in {"hidden", ""}

C16_Witness ==
  /\ lastEvent.type = "api"
  /\ lastEvent.field = "closeMobileMenu"
  /\ lastEvent.valid
  /\ ~isMenuOpen
  /\ ~navMenuActive
  /\ ariaExpanded = "false"
  /\ bodyOverflow = ""

\* C17: whenever no sticky update is pending, the header is sticky exactly
\* when the scroll position is above 50 px; at exactly 50 px it is not.
C17_StickyIffAboveThreshold ==
  ~ticking =>
    /\ headerSticky <=> (scrollY > Px(50))
    /\ (scrollY = Px(50)) => ~headerSticky

C17_Witness ==
  /\ lastEvent.type = "frame"
  /\ ~ticking
  /\ scrollY = Px(50)
  /\ ~headerSticky

\* C18: with the menu open, Escape, a click outside the menu and the
\* toggle, and a click on a nav link each close it, and a click inside the
\* menu that is not on a link leaves it open; with the menu closed,
\* Escape, outside clicks, nav-link clicks and closeMobileMenu() change
\* nothing of the menu state.
C18_ClosingEvents ==
  [][ /\ (isMenuOpen /\ MenuClosingEvent(lastEvent')) => ~isMenuOpen'
      /\ (isMenuOpen /\ lastEvent'.type = "click"
            /\ lastEvent'.field = "nav-menu") =>
           /\ isMenuOpen'
           /\ UNCHANGED <<navMenuActive, ariaExpanded, bodyOverflow>>
      /\ (~isMenuOpen
            /\ (\/ MenuClosingEvent(lastEvent')
                \/ lastEvent'.type = "api" /\ lastEvent'.field = "closeMobileMenu")) =>
           UNCHANGED <<isMenuOpen, navMenuActive, ariaExpanded, bodyOverflow>>
    ]_vars

C18_Witness ==
  /\ lastEvent.type = "click"
  /\ lastEvent.field = "nav-menu"
  /\ lastEvent.valid
  /\ isMenuOpen
  /\ bodyOverflow = "hidden"

----------------------------------------------------------------------------
(* Properties of the smooth scroll module, checked under ScrollSpec        *)

\* Scroll i runs its final frame callback in this step.
Finishes(i) == scrolls[i].requested /\ ~scrolls'[i].requested

\* C19: the position that a smooth scroll to a section targets, with the
\* nav offset of 70 px, is never negative: it is 0 for a section whose top
\* is at most 70 px from the document top and the section top minus 70 px
\* for any other.
C19_TargetNeverNegative ==
  \A i \in 1..Len(scrolls) :
    LET a == scrolls[i]
        top == SectionTop[a.cleanId]
    IN  (a.scrollOffset = 70) =>
          /\ a.targetPosition >= 0
          /\ a.targetPosition = IF top <= 70 THEN 0 ELSE Px(top - 70)

\* C20: in every frame each requested animation step runs; once 800 ms
\* have passed since the first frame of a scroll, that frame sets the
\* scroll position to exactly the target position, writes the target id to
\* the URL hash, focuses the target and requests no further frame; before
\* that the scroll has written no hash, and after it the scroll does
\* nothing more, so it writes the hash exactly once.
C20_ScrollEndsAtTarget ==
  [][ \A i \in 1..Len(scrolls) :
        LET a == scrolls[i]
            b == scrolls'[i]
        IN  /\ Abs(a.distance) >= PositionScale
            /\ a.requested => (a.hashUpdates = 0 /\ ~a.focused)
            /\ ~a.requested => b = a
            /\ (a.requested /\ lastEvent'.type = "frame") =>
                 /\ b.positionSet
                 /\ IF b.elapsed * TickMs >= 800
                      THEN /\ ~b.requested
                           /\ b.lastPosition = a.targetPosition
                           /\ b.hashUpdates = 1
                           /\ b.focused
                           /\ (\A j \in (i + 1)..Len(scrolls) : ~Finishes(j)) =>
                                (urlHash' = a.cleanId /\ activeElement' = a.cleanId)
                      ELSE /\ b.requested
                           /\ b.hashUpdates = 0
                           /\ ~b.focused ]_vars

C20_Witness ==
  /\ Len(scrolls) = 1
  /\ ~scrolls[1].requested
  /\ scrolls[1].elapsed * TickMs > 800
  /\ scrolls[1].lastPosition = scrolls[1].targetPosition
  /\ scrolls[1].hashUpdates = 1
  /\ urlHash = scrolls[1].cleanId
  /\ activeElement = scrolls[1].cleanId
  /\ scrollY = Px(930)

\* C25: smoothScrollTo on an id without an element returns false and
\* changes nothing: no frame is requested, the scroll position, the URL
\* hash and the focus stay.  For an existing target an animation is started
\* only when the distance is at least 1 px; otherwise the call returns
\* true, writes the hash at once and requests no frame.
C25_MissingTargetAndShortDistance ==
  [][lastEvent'.type = "smoothScrollTo" =>
       LET id == lastEvent'.field
       IN  /\ id \notin SectionIds =>
                /\ ~lastEvent'.valid
                /\ scrolls' = scrolls
                /\ scrollY' = scrollY
                /\ urlHash' = urlHash
                /\ activeElement' = activeElement
           /\ id \in SectionIds =>
                /\ lastEvent'.valid
                /\ scrollY' = scrollY
                /\ activeElement' = activeElement
                /\ IF scrolls' = scrolls
                     THEN urlHash' = id
                     ELSE /\ urlHash' = urlHash
                          /\ Len(scrolls') = Len(scrolls) + 1
                          /\ LET a == scrolls'[Len(scrolls')]
                             IN  /\ a.requested
                                 /\ a.cleanId = id
                                 /\ a.startPosition = scrollY
                                 /\ Abs(a.targetPosition - scrollY)
                                      >= PositionScale]_vars

\* Half a pixel above the services target a call jumped (hash written, no
\* animation), and a later call for a missing id returned false and left
\* everything as it was.
C25_Witness ==
  /\ lastEvent.type = "smoothScrollTo"
  /\ lastEvent.field = "nonexistent"
  /\ ~lastEvent.valid
  /\ scrolls = <<>>
  /\ urlHash = "services"
  /\ scrollY = Px(SectionTop["services"] - navHeight) + PositionScale \div 2
  /\ activeElement = "body"

\* C29: starting a smooth scroll leaves the animations already running as
\* they are (there is no cancellation), and in the frame in which the last
\* of two or more animations ends the scroll position, the URL hash and
\* the focus are those of the animation that was started last.
C29_LastStartedScrollWins ==
  [][ /\ lastEvent'.type = "smoothScrollTo" =>
           \A i \in 1..Len(scrolls) : scrolls'[i] = scrolls[i]
      /\ ( /\ lastEvent'.type = "frame"
           /\ Len(scrolls) >= 2
           /\ \E i \in 1..Len(scrolls) : Finishes(i)
           /\ \A i \in 1..Len(scrolls) : ~scrolls'[i].requested ) =>
           LET last == scrolls'[Len(scrolls')]
           IN  /\ scrollY' = ClampScroll(last.targetPosition)
               /\ urlHash' = last.cleanId
               /\ activeElement' = last.cleanId ]_vars

\* Two animations to different places have ended; the second was started
\* while the first was between its start and its target.
C29_Witness ==
  /\ Len(scrolls) = 2
  /\ ~scrolls[1].requested
  /\ ~scrolls[2].requested
  /\ scrolls[1].cleanId = "contact"
  /\ scrolls[2].cleanId = "services"
  /\ scrolls[2].startPosition # scrolls[1].startPosition
  /\ scrolls[2].startPosition # ClampScroll(scrolls[1].targetPosition)
  /\ scrolls[1].elapsed > scrolls[2].elapsed
  /\ scrollY = ClampScroll(scrolls[2].targetPosition)
  /\ scrollY # ClampScroll(scrolls[1].targetPosition)
  /\ urlHash = "services"

----------------------------------------------------------------------------
(* Banner, stale-error and counter properties, checked under Spec          *)

ShowsFieldError(f) == elements[f].errorClass /\ elements[f].ariaInvalid = "true"

\* C27: every field that displays an error has a current value that fails
\* validateField.
C27_DisplayedErrorIsNeverStale ==
  \A f \in RuleFields :
    ShowsFieldError(f) => ~validateField(f, JsString(elements[f].value)).isValid

\* An input event left an error displayed because the new value, though
\* not empty, still fails.
C27_Witness ==
  /\ lastEvent.type = "input"
  /\ lastEvent.field = "email"
  /\ ShowsFieldError("email")
  /\ elements["email"].value # <<>>
  /\ ~ShowsFieldError("name")
  /\ elements["name"].value # <<>>

\* validateField rejects the message value and its trimmed length is above
\* maxLength.
RejectedForMaxLength(v) ==
  /\ ~validateField("message", JsString(v)).isValid
  /\ CoreLength(v) > validationRules.message.maxLength

\* C28: the counter is in the over-limit state exactly when validateField
\* rejects the current message value for exceeding maxLength.
C28_CounterAgreesWithValidation ==
  counter.error <=> RejectedForMaxLength(elements["message"].value)

----------------------------------------------------------------------------
(* Rule table properties, checked under ValidatorSpec                      *)

\* The form data without the keys that have no rule
KnownPart(formData) ==
  [f \in DOMAIN formData \cap RuleFields |-> formData[f]]

\* C23: validateField passes, with an empty message, every value given for
\* a field name that has no rule; validateForm returns for form data with
\* extra keys what it returns without them, and its errors name only fields
\* that have a rule.
C23_UnknownFieldsAreIgnored ==
  /\ (ValidateFieldDone /\ call.fieldName \notin RuleFields) =>
       call.retField = [isValid |-> TRUE, errorMessage |-> ""]
  /\ (call.op = "validateForm" /\ call.done) =>
       /\ call.retForm = validateForm(KnownPart(call.formData))
       /\ Keys(call.retForm.errors) \subseteq RuleFields

\* Form data whose only fault would be an empty extra key has been
\* validated and found valid.
C23_Witness ==
  /\ call.op = "validateForm"
  /\ call.done
  /\ UnknownField \in DOMAIN call.formData
  /\ call.formData[UnknownField] = JsString(<<>>)
  /\ call.retForm.isValid

\* C24: under a rule that is not required, a value that is empty, only
\* white space or not a string is valid whatever the rule's minLength,
\* maxLength or pattern; a value with content shorter than a (non-zero)
\* minLength or longer than a (non-zero) maxLength is invalid.
C24_OptionalEmptyIsValid ==
  (call.op = "validateFieldEdited" /\ call.done) =>
    LET rules == EditedRules(call.ruleEdit)[call.fieldName]
        n == IF call.value.type = "string" THEN CoreLength(call.value.str) ELSE 0
    IN  /\ ~rules.required
        /\ n = 0 => call.retField = [isValid |-> TRUE, errorMessage |-> ""]
        /\ (n > 0 /\ rules.minLength # 0 /\ n < rules.minLength) =>
             ~call.retField.isValid
        /\ (n > 0 /\ rules.maxLength # 0 /\ n > rules.maxLength) =>
             ~call.retField.isValid

\* The optional rule with minLength 2 has passed a white-space-only value.
C24_Witness ==
  /\ call.op = "validateFieldEdited"
  /\ call.done
  /\ call.fieldName = OptionalField
  /\ call.value.str # <<>>
  /\ CoreLength(call.value.str) = 0
  /\ call.retField.isValid

----------------------------------------------------------------------------
(* Animation controller properties                                         *)

\* The last step delivered an intersection entry.
IntersectionStep == animEvent'.op = "intersection"

\* The controller's observer observes the element.
ControllerObserves(element) ==
  observer # 0 /\ element \in observers[observer].targets

C22_VisibleIffLastEntryWasEnter ==
  [][IntersectionStep =>
       LET e == animEvent'.target
           o == animEvent'.observer
       IN  (~observers[o].once \/ AnimateOnceAttr[e] = "false") =>
             (e \in isVisible' <=> animEvent'.isIntersecting)]_vars

\* C30: after destroy() the observer reference is null and no observer the
\* controller created still has a target, so no entry can reach
\* handleIntersection.
C30_DestroyLeavesNothingObserved ==
  animEvent.op = "destroy" =>
    /\ observer = 0
    /\ \A o \in 1..Len(observers) : observers[o].targets = {}
====
